---- MODULE Spec2Model ----
(***************************************************************************)
(* Model of the BlenderGPT add-on (src/__init__.py): the chat panel, its   *)
(* operators (send-message, clear-chat, delete-message, show-code,         *)
(* test-connection) and the add-on preferences that hold the credentials.  *)
(*                                                                         *)
(* All operators run on the host's single UI thread, so an operator is one *)
(* step, except send-message, whose body is split at the points where it   *)
(* can leave early (an exception raised by the code generator or by the    *)
(* executed code) and whose order of steps is itself a subject of the      *)
(* verification.  While a send is in flight (pc # "idle") nothing else     *)
(* runs.  The panel is drawn by the host when it chooses to (Draw), and    *)
(* once by send-message itself (redraw_timer); the buttons the user clicks *)
(* are those of the latest draw.                                           *)
(*                                                                         *)
(* The chat state and the credentials meet in one place only: send-message *)
(* copies the preferences into os.environ and touches no other credential  *)
(* state, and test-connection and the preferences editor touch no chat     *)
(* state.  The model is therefore checked as two specifications over the   *)
(* same variables and the same initial states: Spec, the chat panel with   *)
(* the preferences as they were loaded, and SpecCredentials, the           *)
(* preferences editor and test-connection.                                 *)
(*                                                                         *)
(* Python indices are 0-based: message_index i designates history[i + 1].  *)
(* Credential strings are sequences of characters, so that strip() is      *)
(* modelled by what it does.                                               *)
(***************************************************************************)
EXTENDS Integers, Sequences, FiniteSets, TLC

VARIABLES
    gpt4_chat_history,    \* scene.gpt4_chat_history: sequence of [type, content]
    gpt4_chat_input,      \* scene.gpt4_chat_input
    gpt4_button_pressed,  \* scene.gpt4_button_pressed (the busy flag)
    prefs,                \* the add-on preferences (in memory)
    userpref,             \* the saved preferences file: <<>> or <<record>>
    environ,              \* os.environ's three OPENAI_* variables: <<>> or <<record>>
    console,              \* the lines print() wrote that carry a project id
    buttons,              \* the rows of the panel as last drawn
    text,                 \* the text block GPT4_Generated_Code.py: <<>> or <<code>>
    pc,                   \* position inside GPT4_OT_Execute.execute
    blender_code,         \* the local blender_code of the send in flight
    sent,                 \* what the send in flight (or the last one) did
    last_op,              \* the last operator run and what it returned
    report                \* the last self.report(): <<>> or <<record>>

vars == <<gpt4_chat_history, gpt4_chat_input, gpt4_button_pressed, prefs, userpref,
          environ, console, buttons, text, pc, blender_code, sent, last_op, report>>

(***************************************************************************)
(* Bounds of the model.                                                    *)
(***************************************************************************)
MaxHistory == 3
MaxModels == 1

\* What the user can type into the message field.
InputTexts == {"a"}
\* The code strings the generator can return ("" stands for None or "").
Codes == {"c"}
NoCode == ""
\* The message an exception carries.
FaultMessages == {"boom"}
\* The kinds of exception exec() can raise: instances of Exception, and the
\* BaseException subclasses that are not (SystemExit, KeyboardInterrupt, ...).
FaultKinds == {"Exception", "BaseException"}

Whitespace == {" "}
\* What the user can type into one credential field of the preferences.
CredentialInputs == {<<>>, <<" ">>, <<" ", "k">>}

(***************************************************************************)
(* Pure helpers.                                                           *)
(***************************************************************************)
Last(s) == s[Len(s)]

\* str.strip(): drop the leading and the trailing whitespace.
RECURSIVE LStrip(_)
LStrip(s) == IF s # <<>> /\ Head(s) \in Whitespace THEN LStrip(Tail(s)) ELSE s

RECURSIVE RStrip(_)
RStrip(s) ==
    IF s # <<>> /\ Last(s) \in Whitespace THEN RStrip(SubSeq(s, 1, Len(s) - 1)) ELSE s

Strip(s) == RStrip(LStrip(s))

\* The test of the two fields with "and" in the place of "or".
MissingBothCredentials(api_key, project) == api_key = <<>> /\ project = <<>>

\* "if not api_key or not project" of test-connection, on the stripped values.
MissingCredentials(api_key, project) == api_key = <<>> \/ project = <<>>

\* A message whose content is read after the input field was emptied.
ChatMessageOfEmptiedInput(type, content) == [type |-> type, content |-> ""]

ChatMessage(type, content) == [type |-> type, content |-> content]

\* A message inserted at the head of the collection.
AddMessageAtFront(h, type, content) == <<ChatMessage(type, content)>> \o h

\* gpt4_chat_history.add() followed by the assignments of type and content.
AddMessage(h, type, content) == Append(h, ChatMessage(type, content))

\* A removal that is off by one.
RemoveMessageAfter(h, index) ==
    IF 0 <= index /\ index + 1 < Len(h)
    THEN SubSeq(h, 1, index + 1) \o SubSeq(h, index + 3, Len(h))
    ELSE SubSeq(h, 1, Len(h) - 1)

\* gpt4_chat_history.remove(index).  The host's collection removes the element
\* at a valid index and ignores an index out of range.
RemoveMessage(h, index) ==
    IF 0 <= index /\ index < Len(h)
    THEN SubSeq(h, 1, index) \o SubSeq(h, index + 2, Len(h))
    ELSE h

\* gpt4_chat_history.clear()
ClearMessages(h) == <<>>

\* The rows GPT4_PT_Panel.draw lays out: one per message, with the index
\* enumerate() gives it on the delete button and, for an assistant message,
\* the code on the show-code button.
DrawRows(h) ==
    [i \in 1..Len(h) |->
        [message_index |-> i - 1, type |-> h[i].type, content |-> h[i].content]]

\* The user turn recorded before the generator is called.
AfterStepUserFirst(step) ==
    CASE step = "start" -> "append_user"
      [] step = "append_user" -> "generate"
      [] step = "generate" -> "branch"

\* The order of the statements of GPT4_OT_Execute.execute before its if.
AfterStep(step) ==
    CASE step = "start" -> "generate"
      [] step = "generate" -> "append_user"
      [] step = "append_user" -> "branch"

(***************************************************************************)
(* Initial state: the add-on just registered, nothing typed or saved.      *)
(***************************************************************************)
NoSend ==
    [input |-> "", before |-> <<>>, called |-> FALSE, call_prompt |-> "",
     call_history |-> <<>>, code |-> NoCode, executed |-> FALSE,
     fault_kind |-> "", fault_msg |-> ""]

Op(name, result) ==
    [name |-> name, result |-> result, index |-> -1, target |-> <<>>,
     drawn |-> <<>>, listed |-> FALSE]

Report(level, msg, detail, models) ==
    <<[level |-> level, msg |-> msg, detail |-> detail, models |-> models]>>

Credentials(api_key, project, org) ==
    [api_key |-> api_key, project_id |-> project, organization_id |-> org]

\* The preferences the host loads when the add-on is registered: the defaults
\* of GPT4AddonPreferences, or the credentials an earlier session saved.
LoadedPreferences ==
    {<<>>, <<Credentials(<<"k">>, <<"k">>, <<>>)>>}

Init ==
    /\ gpt4_chat_history = <<>>
    /\ gpt4_chat_input = ""
    /\ gpt4_button_pressed = FALSE
    /\ userpref \in LoadedPreferences
    /\ prefs = IF userpref = <<>> THEN Credentials(<<>>, <<>>, <<>>) ELSE userpref[1]
    /\ environ = <<>>
    /\ console = {}
    /\ buttons = <<>>
    /\ text = <<>>
    /\ pc = "idle"
    /\ blender_code = NoCode
    /\ sent = NoSend
    /\ last_op = Op("none", "FINISHED")
    /\ report = <<>>

(***************************************************************************)
(* The user edits the fields the panel and the preferences expose.         *)
(***************************************************************************)
\* col.prop(context.scene, "gpt4_chat_input")
TypeInput ==
    /\ pc = "idle"
    /\ \E t \in InputTexts : gpt4_chat_input' = t
    /\ UNCHANGED <<gpt4_chat_history, gpt4_button_pressed, prefs, userpref, environ,
                   console, buttons, text, pc, blender_code, sent, last_op, report>>

\* layout.prop(self, "api_key" | "project_id" | "organization_id")
EditPreferences ==
    /\ pc = "idle"
    /\ \E f \in {"api_key", "project_id", "organization_id"}, v \in CredentialInputs :
          prefs' = [prefs EXCEPT ![f] = v]
    /\ UNCHANGED <<gpt4_chat_history, gpt4_chat_input, gpt4_button_pressed, userpref,
                   environ, console, buttons, text, pc, blender_code, sent, last_op,
                   report>>

\* The host redraws the panel.  It does so between events, when it chooses to:
\* no operator asks for a redraw after it changed the history, and the clicks
\* that queued up while the UI thread was blocked are all handled against the
\* buttons as they were last drawn.
Draw ==
    /\ pc = "idle"
    /\ buttons' = DrawRows(gpt4_chat_history)
    /\ UNCHANGED <<gpt4_chat_history, gpt4_chat_input, gpt4_button_pressed, prefs,
                   userpref, environ, console, text, pc, blender_code, sent, last_op,
                   report>>

(***************************************************************************)
(* The operators of the chat panel.                                        *)
(***************************************************************************)
\* GPT4_OT_DeleteMessage.execute, from the delete button of a drawn row.
DeleteMessage ==
    /\ pc = "idle"
    /\ \E row \in 1..Len(buttons) :
          LET index == buttons[row].message_index IN
          /\ gpt4_chat_history' = RemoveMessage(gpt4_chat_history, index)
          /\ last_op' = [Op("delete", "FINISHED") EXCEPT
                            !.index = index,
                            !.target = IF 0 <= index /\ index < Len(gpt4_chat_history)
                                       THEN <<gpt4_chat_history[index + 1]>> ELSE <<>>,
                            !.drawn = <<[type |-> buttons[row].type,
                                         content |-> buttons[row].content]>>]
    /\ report' = <<>>
    /\ sent' = NoSend
    /\ UNCHANGED <<gpt4_chat_input, gpt4_button_pressed, prefs, userpref, environ,
                   console, buttons, text, pc, blender_code>>

\* GPT4_OT_ClearChat.execute
ClearChat ==
    /\ pc = "idle"
    /\ gpt4_chat_history' = ClearMessages(gpt4_chat_history)
    /\ last_op' = Op("clear", "FINISHED")
    /\ report' = <<>>
    /\ sent' = NoSend
    /\ UNCHANGED <<gpt4_chat_input, gpt4_button_pressed, prefs, userpref, environ,
                   console, buttons, text, pc, blender_code>>

\* GPT4_OT_ShowCode.execute, from the show-code button of a drawn assistant row.
ShowCode ==
    /\ pc = "idle"
    /\ \E row \in 1..Len(buttons) :
          /\ buttons[row].type = "assistant"
          /\ text' = <<buttons[row].content>>
    /\ last_op' = Op("show_code", "FINISHED")
    /\ report' = <<>>
    /\ sent' = NoSend
    /\ UNCHANGED <<gpt4_chat_history, gpt4_chat_input, gpt4_button_pressed, prefs,
                   userpref, environ, console, buttons, pc, blender_code>>

(***************************************************************************)
(* GPT4_OT_Execute.execute (send-message), statement by statement.         *)
(***************************************************************************)
\* Lines 100-106: export the credentials, set the busy flag, force a redraw.
SendStart ==
    /\ pc = "idle"
    /\ Len(gpt4_chat_history) + 2 <= MaxHistory
    /\ environ' = <<Credentials(prefs.api_key, prefs.project_id, prefs.organization_id)>>
    /\ gpt4_button_pressed' = TRUE
    /\ buttons' = DrawRows(gpt4_chat_history)
    /\ sent' = [NoSend EXCEPT !.input = gpt4_chat_input, !.before = gpt4_chat_history]
    /\ last_op' = Op("send", "RUNNING")
    /\ report' = <<>>
    /\ blender_code' = NoCode
    /\ pc' = AfterStep("start")
    /\ UNCHANGED <<gpt4_chat_history, gpt4_chat_input, prefs, userpref, console, text>>

\* What generate_blender_code (utilities.py) can do: return a code string or
\* nothing, or let a provider error propagate.
GenerateReturns == Codes \cup {NoCode}
GenerateRaises == FaultMessages

\* Lines 108-113: the call of generate_blender_code with the input and the
\* history as they are now.  It returns a code string, returns nothing, or a
\* provider error propagates out of execute.
SendGenerate ==
    /\ pc = "generate"
    /\ LET call == [sent EXCEPT !.called = TRUE,
                                !.call_prompt = gpt4_chat_input,
                                !.call_history = gpt4_chat_history]
       IN \/ \E c \in GenerateReturns :
                /\ blender_code' = c
                /\ sent' = [call EXCEPT !.code = c]
                /\ pc' = AfterStep("generate")
                /\ UNCHANGED last_op
          \/ \E m \in GenerateRaises :
                /\ sent' = [call EXCEPT !.fault_kind = "ProviderError", !.fault_msg = m]
                /\ pc' = "idle"
                /\ last_op' = Op("send", "RAISED")
                /\ UNCHANGED blender_code
    /\ UNCHANGED <<gpt4_chat_history, gpt4_chat_input, gpt4_button_pressed, prefs,
                   userpref, environ, console, buttons, text, report>>

\* Lines 115-118: record the user turn and empty the input field.
SendAppendUser ==
    /\ pc = "append_user"
    /\ gpt4_chat_history' = AddMessage(gpt4_chat_history, "user", gpt4_chat_input)
    /\ gpt4_chat_input' = ""
    /\ pc' = AfterStep("append_user")
    /\ UNCHANGED <<gpt4_button_pressed, prefs, userpref, environ, console, buttons,
                   text, blender_code, sent, last_op, report>>

\* Lines 120-123 and 128-129: with code, record the assistant turn and go on
\* to run it; without, report that nothing was generated.
SendBranch ==
    /\ pc = "branch"
    /\ IF blender_code # NoCode
       THEN /\ gpt4_chat_history' =
                   AddMessage(gpt4_chat_history, "assistant", blender_code)
            /\ pc' = "exec"
            /\ UNCHANGED report
       ELSE /\ report' = Report("ERROR", "No code generated.", "", 0)
            /\ pc' = "finish"
            /\ UNCHANGED gpt4_chat_history
    /\ UNCHANGED <<gpt4_chat_input, gpt4_button_pressed, prefs, userpref, environ,
                   console, buttons, text, blender_code, sent, last_op>>

\* Lines 124-127: exec() of the code.  "except Exception" catches an instance
\* of Exception and reports it; any other BaseException propagates.
SendExec ==
    /\ pc = "exec"
    /\ \/ /\ sent' = [sent EXCEPT !.executed = TRUE]
          /\ pc' = "finish"
          /\ UNCHANGED <<report, last_op>>
       \/ \E k \in FaultKinds, m \in FaultMessages :
             /\ sent' = [sent EXCEPT !.executed = TRUE, !.fault_kind = k,
                                     !.fault_msg = m]
             /\ IF k = "Exception"
                THEN /\ report' = Report("ERROR", "Execution error", m, 0)
                     /\ pc' = "finish"
                     /\ UNCHANGED last_op
                ELSE /\ pc' = "idle"
                     /\ last_op' = Op("send", "RAISED")
                     /\ UNCHANGED report
    /\ UNCHANGED <<gpt4_chat_history, gpt4_chat_input, gpt4_button_pressed, prefs,
                   userpref, environ, console, buttons, text, blender_code>>

\* Lines 131-132: clear the busy flag and return.
SendFinish ==
    /\ pc = "finish"
    /\ gpt4_button_pressed' = FALSE
    /\ last_op' = Op("send", "FINISHED")
    /\ pc' = "idle"
    /\ UNCHANGED <<gpt4_chat_history, gpt4_chat_input, prefs, userpref, environ,
                   console, buttons, text, blender_code, sent, report>>

(***************************************************************************)
(* GPT4_OT_TestConnection.execute                                          *)
(***************************************************************************)
\* The credentials written before the listing is attempted.
PrefsWrittenBeforeListing(p, listed_ok, api_key, project, org) ==
    Credentials(api_key, project, org)

\* Lines 156-158: the preferences after a test whose listing succeeded or not.
PrefsAfterTest(p, listed_ok, api_key, project, org) ==
    IF listed_ok THEN Credentials(api_key, project, org) ELSE p

\* Line 159: the saved preferences after a test.
UserprefAfterTest(u, listed_ok, p) == IF listed_ok THEN <<p>> ELSE u

TestConnection ==
    /\ pc = "idle"
    /\ LET api_key == Strip(prefs.api_key)
           project == Strip(prefs.project_id)
           org == Strip(prefs.organization_id)
       IN IF MissingCredentials(api_key, project)
          THEN /\ report' = Report("ERROR", "Please enter both API key and Project ID", "", 0)
               /\ last_op' = Op("test", "CANCELLED")
               /\ UNCHANGED <<prefs, userpref, console>>
          ELSE \/ \E n \in 0..MaxModels :
                     /\ prefs' = PrefsAfterTest(prefs, TRUE, api_key, project, org)
                     /\ userpref' = UserprefAfterTest(userpref, TRUE, prefs')
                     /\ report' = Report("INFO", "Connection successful", "", n)
                     /\ console' = console \cup
                           {[line |-> "Connected to OpenAI project", project |-> project]}
                     /\ last_op' = [Op("test", "FINISHED") EXCEPT !.listed = TRUE]
               \/ \E m \in FaultMessages :
                     /\ prefs' = PrefsAfterTest(prefs, FALSE, api_key, project, org)
                     /\ userpref' = UserprefAfterTest(userpref, FALSE, prefs')
                     /\ report' = Report("ERROR", "Connection failed", m, 0)
                     /\ console' = console \cup
                           {[line |-> "Connection failed", project |-> <<>>]}
                     /\ last_op' = [Op("test", "CANCELLED") EXCEPT !.listed = TRUE]
    /\ sent' = NoSend
    /\ UNCHANGED <<gpt4_chat_history, gpt4_chat_input, gpt4_button_pressed, environ,
                   buttons, text, pc, blender_code>>

(***************************************************************************)
(* The specification.                                                      *)
(***************************************************************************)
Next ==
    \/ TypeInput
    \/ Draw
    \/ DeleteMessage
    \/ ClearChat
    \/ ShowCode
    \/ SendStart
    \/ SendGenerate
    \/ SendAppendUser
    \/ SendBranch
    \/ SendExec
    \/ SendFinish

Spec == Init /\ [][Next]_vars

NextCredentials ==
    \/ EditPreferences
    \/ TestConnection

SpecCredentials == Init /\ [][NextCredentials]_vars

(***************************************************************************)
(* Reference definitions used by the properties: an ordered list, the two  *)
(* kinds of chat entries, and blank strings.                               *)
(***************************************************************************)
ListAppend(l, e) == [j \in 1..(Len(l) + 1) |-> IF j <= Len(l) THEN l[j] ELSE e]

\* Remove the element at the 0-based position i; the later ones move down.
ListRemove(l, i) == [j \in 1..(Len(l) - 1) |-> IF j <= i THEN l[j] ELSE l[j + 1]]

ListClear == <<>>

UserTurn(t) == [type |-> "user", content |-> t]
AssistantTurn(c) == [type |-> "assistant", content |-> c]

\* Empty once the whitespace is trimmed.
IsBlank(s) == \A i \in 1..Len(s) : s[i] \in Whitespace

Trimmed(s) == s = <<>> \/ (s[1] \notin Whitespace /\ s[Len(s)] \notin Whitespace)

SendOver == pc = "idle" /\ last_op.name = "send"

(***************************************************************************)
(* Properties.                                                             *)
(***************************************************************************)

\* C1 (as stated): in every send the user turn is appended first, then the
\* generator is called, then the assistant turn is appended, then the code is
\* executed; the user turn is in the history when the generator is called.
C1_UserTurnBeforeGenerate ==
    /\ sent.called =>
          sent.call_history = ListAppend(sent.before, UserTurn(sent.input))
    /\ pc = "exec" =>
          gpt4_chat_history =
             ListAppend(ListAppend(sent.before, UserTurn(sent.input)),
                        AssistantTurn(sent.code))

\* C1 (amended): in every send the generator is called first, with the input
\* text and the history as it was before the send (the user turn is not in it);
\* then the user turn is appended, then the assistant turn, then the code is
\* executed.
C1_GenerateBeforeUserTurn ==
    /\ pc = "generate" => ~sent.called /\ gpt4_chat_history = sent.before
    /\ sent.called =>
          sent.call_history = sent.before /\ sent.call_prompt = sent.input
    /\ pc = "append_user" => sent.called /\ gpt4_chat_history = sent.before
    /\ pc = "branch" =>
          /\ sent.called
          /\ gpt4_chat_history = ListAppend(sent.before, UserTurn(sent.input))
    /\ pc = "exec" =>
          /\ ~sent.executed
          /\ gpt4_chat_history =
                ListAppend(ListAppend(sent.before, UserTurn(sent.input)),
                           AssistantTurn(sent.code))
    /\ sent.executed =>
          /\ sent.code # NoCode
          /\ gpt4_chat_history =
                ListAppend(ListAppend(sent.before, UserTurn(sent.input)),
                           AssistantTurn(sent.code))

\* C1 witness: a send on a non-empty history went through all four steps.
C1_Witness ==
    /\ pc = "finish"
    /\ sent.executed
    /\ sent.before # <<>>
    /\ sent.input # ""

\* C2: a send whose generation returned a non-empty code c leaves the history
\* equal to the history h before it followed by {user, t} and {assistant, c},
\* in this order; from an empty h the history has exactly 2 entries.
C2_SendAppendsUserThenAssistant ==
    (SendOver /\ sent.code # NoCode) =>
       /\ gpt4_chat_history =
             ListAppend(ListAppend(sent.before, UserTurn(sent.input)),
                        AssistantTurn(sent.code))
       /\ sent.before = <<>> => Len(gpt4_chat_history) = 2

\* C2 witness: such a send finished on a non-empty history with a typed input.
C2_Witness ==
    /\ SendOver
    /\ last_op.result = "FINISHED"
    /\ sent.code # NoCode
    /\ sent.before # <<>>
    /\ sent.input # ""

\* C3: test-connection with a blank API key or a blank project id ends in the
\* error report and CANCELLED, never calls the provider's model listing and
\* writes or saves no credential.
C3_BlankCredentialsCancelled ==
    [][(TestConnection /\ (IsBlank(prefs.api_key) \/ IsBlank(prefs.project_id))) =>
          /\ last_op'.result = "CANCELLED"
          /\ ~last_op'.listed
          /\ report' # <<>> /\ report'[1].level = "ERROR"
          /\ prefs' = prefs
          /\ userpref' = userpref]_vars

\* C3 witness: a test was cancelled without a listing while the project id is
\* there and the API key is whitespace only.
C3_Witness ==
    /\ last_op.name = "test"
    /\ last_op.result = "CANCELLED"
    /\ ~last_op.listed
    /\ prefs.api_key = <<" ">>
    /\ ~IsBlank(prefs.project_id)

\* C4: whichever way a send ends, the busy flag is False once it is over: in
\* every state where no send is in flight gpt4_button_pressed is False.
C4_IdleIsNotBusy == pc = "idle" => ~gpt4_button_pressed

\* C5: when the executed code raises a fault of any kind, the send reports an
\* execution error with the fault's message, returns normally and keeps the
\* assistant entry with the failed code in the history.
C5_ExecutionFaultCaught ==
    (SendOver /\ sent.executed /\ sent.fault_kind # "") =>
       /\ report # <<>>
       /\ report[1].msg = "Execution error"
       /\ report[1].detail = sent.fault_msg
       /\ last_op.result = "FINISHED"
       /\ gpt4_chat_history # <<>>
       /\ gpt4_chat_history[Len(gpt4_chat_history)] = AssistantTurn(sent.code)

\* C6: when the generation returns nothing the send reports "No code
\* generated.", appends the user turn with the input text and nothing else, and
\* executes no code.
C6_NoCodeRecordsUserTurnOnly ==
    (SendOver /\ sent.called /\ sent.fault_kind = "" /\ sent.code = NoCode) =>
       /\ report # <<>>
       /\ report[1].level = "ERROR"
       /\ report[1].msg = "No code generated."
       /\ gpt4_chat_history = ListAppend(sent.before, UserTurn(sent.input))
       /\ Len(gpt4_chat_history) = Len(sent.before) + 1
       /\ ~sent.executed
       /\ last_op.result = "FINISHED"

\* C6 witness: such a send finished on a non-empty history with a typed input.
C6_Witness ==
    /\ SendOver
    /\ sent.called
    /\ sent.fault_kind = ""
    /\ sent.code = NoCode
    /\ sent.before # <<>>
    /\ sent.input # ""

\* C7: every operator that changes the chat history changes it as the
\* reference list does: the appends of a send are append-at-end, a delete with
\* a valid index i is remove-by-index (the i-th entry goes, the later ones move
\* down by one), clear-chat is clear-all and leaves length 0.
C7_HistoryRefinesList ==
    [][/\ ClearChat => gpt4_chat_history' = ListClear /\ Len(gpt4_chat_history') = 0
       /\ \A i \in 0..(Len(gpt4_chat_history) - 1) :
             (DeleteMessage /\ last_op'.index = i) =>
                gpt4_chat_history' = ListRemove(gpt4_chat_history, i)
       /\ SendAppendUser =>
             gpt4_chat_history' =
                ListAppend(gpt4_chat_history, UserTurn(gpt4_chat_input))
       /\ (SendBranch /\ blender_code # NoCode) =>
             gpt4_chat_history' =
                ListAppend(gpt4_chat_history, AssistantTurn(blender_code))]_vars

\* C7 witness: a delete with a valid index removed an entry that had others
\* before and after it.
C7_Witness ==
    /\ last_op.name = "delete"
    /\ last_op.target # <<>>
    /\ last_op.index = 1
    /\ Len(gpt4_chat_history) = 2
    /\ gpt4_chat_history[1] # gpt4_chat_history[2]

C9_NoCredentialLeak ==
    /\ \A l \in console : l.project = <<>>
    /\ \A i \in 1..Len(environ) :
          /\ environ[i].api_key = <<>>
          /\ environ[i].project_id = <<>>
          /\ environ[i].organization_id = <<>>

\* C10: every delete runs with an index that is valid for the history at that
\* moment and designates the message its button was drawn next to.
C10_DeleteIndexValid ==
    last_op.name = "delete" =>
       /\ 0 <= last_op.index
       /\ last_op.target # <<>>
       /\ last_op.target = last_op.drawn

====
